---- MODULE Spec2Model ----
(***************************************************************************)
(* State-machine model of the clustering core of THEMA:                    *)
(*   src/src/modeling/model.py              (class Model)                  *)
(*   src/src/modeling/tupper.py             (class Tupper)                 *)
(*   src/src/modeling/literals/data_utils.py (get_minimal_std)             *)
(*                                                                         *)
(* Python values are represented as follows.                               *)
(*   None            the empty sequence <<>>; a field holding the value v  *)
(*                   is the one-element sequence <<v>>                     *)
(*   dict            a sequence of [key, val] records in insertion order   *)
(*   list(set(..))   the set of its elements (such a list has no           *)
(*                   duplicates and no operation below reads its order)    *)
(*   list of node ids / the int -1 stored in its place:                    *)
(*                   a record [kind, int, list]                            *)
(***************************************************************************)
EXTENDS Integers, Sequences, FiniteSets, TLC

\* ---------------------------------------------------------------- bounds
\* Number of rows of the cleaned data, len(self.tupper.clean).
NumItems == 3
\* How many times the environment rewrites the pickled mapper artifact.
MaxChanges == 1

Items == 0 .. (NumItems - 1)

\* Node ids of the complex in the key order of complex["nodes"].
NodeOrder == <<"A", "B">>
NodeIds == {NodeOrder[i] : i \in 1 .. Len(NodeOrder)}

\* ---------------------------------------------------------- Python values
None == <<>>
Some(v) == <<v>>
IsNone(x) == Len(x) = 0
Val(x) == x[1]

PyInt(n) == [kind |-> "int", int |-> n, list |-> <<>>]
PyList(s) == [kind |-> "list", int |-> 0, list |-> s]

EmptyDict == <<>>
DictHas(d, k) == \E i \in 1 .. Len(d) : d[i].key = k
DictGet(d, k) == d[CHOOSE i \in 1 .. Len(d) : d[i].key = k].val
DictKeys(d) == [i \in 1 .. Len(d) |-> d[i].key]
DictKeySet(d) == {d[i].key : i \in 1 .. Len(d)}
\* d[k] = v: an existing key keeps its position, a new key is appended.
DictSet(d, k, v) ==
    IF DictHas(d, k)
    THEN [i \in 1 .. Len(d) |-> IF d[i].key = k THEN [key |-> k, val |-> v] ELSE d[i]]
    ELSE Append(d, [key |-> k, val |-> v])
\* d.pop(k) for a key that is present.
DictPop(d, k) == SelectSeq(d, LAMBDA e : e.key # k)

\* ---------------------------------------------- the pickled mapper artifact
\* reference["mapper"]: .complex is a dict ({} before fit(), otherwise it has
\* the key "nodes": node id -> item indices) and .components maps each
\* connected component (here: its node set) to its cluster id, in dict order.
Unfitted == [complex |-> EmptyDict, components |-> EmptyDict]

Fitted(nodes, components) ==
    [complex |-> <<[key |-> "nodes", val |-> nodes]>>, components |-> components]

ItemSets == (SUBSET Items) \ {{}}

\* The dicts node id -> item set over the first k node ids.
NodeDicts(k) == {[i \in 1 .. k |-> [key |-> NodeOrder[i], val |-> f[i]]] : f \in [1 .. k -> ItemSets]}

\* The ways the fitting process can split the nodes of a complex into connected
\* components and number them: each node lies in exactly one component, the
\* cluster ids are distinct and >= 0, and the dict order is independent of
\* the ids.
ComponentsOf(k) ==
    IF k = 0 THEN {EmptyDict}
    ELSE IF k = 1 THEN {<<[key |-> {"A"}, val |-> 0]>>}
    ELSE {<<[key |-> {"A", "B"}, val |-> 0]>>,
          <<[key |-> {"A"}, val |-> 0], [key |-> {"B"}, val |-> 1]>>,
          <<[key |-> {"A"}, val |-> 1], [key |-> {"B"}, val |-> 0]>>}

Artifacts ==
    {Unfitted} \cup
    UNION {{Fitted(nodes, comps) : nodes \in NodeDicts(k), comps \in ComponentsOf(k)}
             : k \in 0 .. Len(NodeOrder)}

IsFitted(a) == Len(a.complex) > 0

\* One rewrite of the artifact by the fitting process: an unfitted mapper is
\* fitted, or a fitted one is refitted with the item set of one node changed or
\* with its graph split into other components.
Refits(a) ==
    {b \in Artifacts \ {a} :
        /\ IsFitted(b)
        /\ IsFitted(a) =>
              /\ Len(a.complex[1].val) = Len(b.complex[1].val)
              /\ Cardinality({i \in 1 .. Len(a.complex[1].val) :
                                 a.complex[1].val[i] # b.complex[1].val[i]}) <= 1
              /\ (a.components # b.components => a.complex = b.complex)}

\* ------------------------------------------------------------ the data files
\* The cleaned table: one row per item (the values of its columns are not read
\* by the labelling operations).
CleanData == [i \in Items |-> [row |-> i]]

\* Tupper.clean: the table, or None when loading the pickle raises (the
\* exception is printed and swallowed).
TupperClean(file) ==
    IF file \in {"ok", "lacks dropped_columns"} THEN Some(CleanData) ELSE None

\* len() of a table.
TableLen(df) == Cardinality(DOMAIN df)

\* A DataFrame: its column labels in order and one value per column and row.
\* A raw table also records which of its columns have a numeric dtype.
EmptyFrame == [columns |-> <<>>, data |-> <<>>]
EmptyRaw == [columns |-> <<>>, kinds |-> <<>>, data |-> <<>>]

\* raw.select_dtypes(include=["number"]).columns
RawNumeric(raw) == SelectSeq(raw.columns, LAMBDA c : raw.kinds[c] = "number")

\* The sum of the cells of a column over a set of rows.
RECURSIVE SumOver(_, _)
SumOver(f, S) ==
    IF S = {} THEN 0
    ELSE LET x == CHOOSE y \in S : TRUE IN f[x] + SumOver(f, S \ {x})

\* std() of one column over the rows of mask, as the integer n(n-1)std^2 =
\* n*sum(x^2) - sum(x)^2: all columns share n, so it orders them as std does.
ColumnStd(column, mask) ==
    Cardinality(mask) * SumOver([i \in mask |-> column[i] * column[i]], mask)
        - SumOver(column, mask) * SumOver(column, mask)

\* What argmin() of an all-NaN Series does in the installed pandas: it returns
\* -1 (the last label is then selected), or it raises ValueError.
ArgminAllNaN == {"last", "raise"}

\* The contents of the data pickles and the pandas in use, for the operations
\* that read no cell of the tables.
NoCells == [clean |-> EmptyFrame, raw |-> EmptyRaw, zscore |-> EmptyFrame, argmin_all_nan |-> "last"]

VARIABLES
    disk,               \* the pickled mapper artifact self._mapper points to
    clean_file,         \* state of the pickle Tupper._clean points to
    tupper_files,       \* states of the pickles Tupper._raw and Tupper._projection point to
    data,               \* cells of the clean and raw tables, and the pandas in use
    changes,            \* rewrites of the artifact so far
    node_ids,           \* Model._node_ids
    node_description,   \* Model._node_description
    cluster_descriptions, \* Model._cluster_descriptions
    unclustered_items,  \* Model._unclustered_items
    cluster_ids,        \* Model._cluster_ids
    cluster_sizes,      \* Model._cluster_sizes
    items_dict,         \* Model._items_dict
    zscores,            \* Model._zscores
    group_ids,          \* Model._group_identifiers
    index_dict,         \* Model.index_dict
    fn_args,            \* the arguments of a helper function called on its own
    ret,                \* the last call: operation, outcome, returned value
    first_read          \* history: the first value the watched accessor returned

vars == <<disk, clean_file, tupper_files, data, changes, node_ids, node_description,
          cluster_descriptions, unclustered_items, cluster_ids, cluster_sizes, items_dict,
          zscores, group_ids, index_dict, fn_args, ret, first_read>>

\* The fields of the Model instance as one record, and the environment a call
\* runs in.
Self ==
    [node_ids |-> node_ids, unclustered_items |-> unclustered_items,
     cluster_ids |-> cluster_ids, cluster_sizes |-> cluster_sizes,
     items_dict |-> items_dict, zscores |-> zscores, group_ids |-> group_ids,
     index_dict |-> index_dict, node_description |-> node_description,
     cluster_descriptions |-> cluster_descriptions]

Env == [disk |-> disk, clean_file |-> clean_file, data |-> data]

\* Outcomes of a call on the instance s: an exception leaves the fields as they
\* are at the raise.
Raise(s) == [self |-> s, ok |-> FALSE, val |-> None]
Return(s, v) == [self |-> s, ok |-> TRUE, val |-> Some(v)]
ReturnNone(s) == [self |-> s, ok |-> TRUE, val |-> None]

\* The outcome r of a derivation, turned into the outcome of the property that
\* ran it: the field the derivation filled, or its exception.
ReturnField(r, field) == IF r.ok THEN Return(r.self, Val(r.self[field])) ELSE Raise(r.self)

\* ------------------------------------------------------- label_item_by_node
\* Mutant: the scan over nodes.keys() stops at the first node holding idx.
FirstNodeContaining(nodes, idx) ==
    IF \A k \in 1 .. Len(nodes) : idx \notin nodes[k].val THEN <<>>
    ELSE <<nodes[CHOOSE k \in 1 .. Len(nodes) :
                    idx \in nodes[k].val /\ \A j \in 1 .. (k - 1) : idx \notin nodes[j].val].key>>

\* The node ids whose item set contains idx, in the key order of nodes.
NodesContaining(nodes, idx) == DictKeys(SelectSeq(nodes, LAMBDA en : idx \in en.val))

\* labels[idx]: the list of node ids, or the int -1 when the list is empty.
PlaceHolderOf(place_holder) ==
    IF Len(place_holder) = 0 THEN PyInt(-1) ELSE PyList(place_holder)

PlaceHolder(nodes, idx) == PlaceHolderOf(NodesContaining(nodes, idx))

\* The indices appended to unclustered_items.
UnclusteredOf(nodes, N) == {idx \in 0 .. (N - 1) : Len(NodesContaining(nodes, idx)) = 0}

\* The loop over range(N) and the two assignments that end the method.
LabelNodes(s, nodes, N) ==
    Return([s EXCEPT !.node_ids = Some([idx \in 0 .. (N - 1) |-> PlaceHolder(nodes, idx)]),
                     !.unclustered_items = Some(UnclusteredOf(nodes, N))],
           [idx \in 0 .. (N - 1) |-> PlaceHolder(nodes, idx)])

label_item_by_node(s, e) ==
    IF IsNone(TupperClean(e.clean_file)) THEN Raise(s)          \* len(None)
    ELSE IF ~DictHas(e.disk.complex, "nodes") THEN Raise(s)     \* KeyError
    ELSE LabelNodes(s, DictGet(e.disk.complex, "nodes"), TableLen(Val(TupperClean(e.clean_file))))

\* Mutant: the read that runs the derivation returns an empty list, and only
\* the later reads return the list the derivation stored.
prop_unclustered_items_stale(s, e) ==
    IF IsNone(s.unclustered_items)
    THEN [ReturnField(label_item_by_node(s, e), "unclustered_items") EXCEPT !.val = Some({})]
    ELSE Return(s, Val(s.unclustered_items))

\* property Model.unclustered_items
prop_unclustered_items(s, e) ==
    IF IsNone(s.unclustered_items)
    THEN ReturnField(label_item_by_node(s, e), "unclustered_items")
    ELSE Return(s, Val(s.unclustered_items))

\* property Model.node_ids
prop_node_ids(s, e) ==
    IF IsNone(s.node_ids)
    THEN ReturnField(label_item_by_node(s, e), "node_ids")
    ELSE Return(s, Val(s.node_ids))

\* ---------------------------------------------------- label_item_by_cluster
\* Mutant: only the items shared by all the nodes of the component.
ComponentIndicesShared(nodes, component) ==
    {i \in UNION {DictGet(nodes, n) : n \in component} :
        \A n \in component : i \in DictGet(nodes, n)}

\* set(itertools.chain(*elements)): the items of the nodes of one component.
ComponentIndices(nodes, component) == UNION {DictGet(nodes, n) : n \in component}

\* Mutant: size = len(list(itertools.chain(*elements))), shared items repeated.
RECURSIVE ComponentSizeWithDuplicates(_, _)
ComponentSizeWithDuplicates(nodes, component) ==
    IF component = {} THEN 0
    ELSE LET n == CHOOSE m \in component : TRUE IN
         Cardinality(DictGet(nodes, n)) + ComponentSizeWithDuplicates(nodes, component \ {n})

\* size = len(indices)
ComponentSize(nodes, component) == Cardinality(ComponentIndices(nodes, component))

\* Mutant: an item that already has a cluster label keeps it.
AssignLabelsFirstWins(labels, indices, cluster_id) ==
    [i \in DOMAIN labels |-> IF i \in indices /\ labels[i] = -1 THEN cluster_id ELSE labels[i]]

\* labels[list(indices)] = cluster_id
AssignLabels(labels, indices, cluster_id) ==
    [i \in DOMAIN labels |-> IF i \in indices THEN cluster_id ELSE labels[i]]

\* Mutant: a component lists only the items that no earlier component labelled.
ComponentStepExclusive(acc, nodes, component, cluster_id) ==
    [items |-> DictSet(acc.items, cluster_id,
                       {i \in ComponentIndices(nodes, component) : acc.labels[i] = -1}),
     labels |-> AssignLabels(acc.labels, ComponentIndices(nodes, component), cluster_id),
     sizes |-> DictSet(acc.sizes, cluster_id, ComponentSize(nodes, component))]

\* One pass of the loop body, for the component `component` with id cluster_id.
ComponentStep(acc, nodes, component, cluster_id) ==
    [items |-> DictSet(acc.items, cluster_id, ComponentIndices(nodes, component)),
     labels |-> AssignLabels(acc.labels, ComponentIndices(nodes, component), cluster_id),
     sizes |-> DictSet(acc.sizes, cluster_id, ComponentSize(nodes, component))]

\* The loop over components.keys(), from the k-th component on.
RECURSIVE ComponentLoop(_, _, _, _)
ComponentLoop(components, nodes, k, acc) ==
    IF k > Len(components) THEN acc
    ELSE ComponentLoop(components, nodes, k + 1,
                       ComponentStep(acc, nodes, components[k].key, components[k].val))

\* The precondition asserted on entry: len(self.complex) > 0.
ComplexNonEmpty(complex) == Len(complex) > 0

\* self._cluster_sizes = {}; self._items_dict = {}
ResetClusterCaches(s) ==
    [s EXCEPT !.cluster_sizes = Some(EmptyDict), !.items_dict = Some(EmptyDict)]

\* labels = -np.ones(N), the empty dicts, and the loop run on them; then
\* self._cluster_ids = labels.
LabelComponents(s, components, nodes, N) ==
    LET acc == ComponentLoop(components, nodes, 1,
                   [items |-> EmptyDict, labels |-> [i \in 0 .. (N - 1) |-> -1],
                    sizes |-> EmptyDict])
    IN  [s EXCEPT !.cluster_sizes = Some(acc.sizes), !.items_dict = Some(acc.items),
                  !.cluster_ids = Some(acc.labels)]

\* Mutant: only the size of the unclustered list is recorded, not the list.
StoreUnclusteredSizeOnly(u) ==
    IF ~u.ok THEN Raise(u.self)
    ELSE ReturnNone([u.self EXCEPT
             !.cluster_sizes = Some(DictSet(Val(u.self.cluster_sizes), -1, Cardinality(Val(u.val))))])

\* The two closing assignments, given the outcome u of self.unclustered_items.
StoreUnclustered(u) ==
    IF ~u.ok THEN Raise(u.self)
    ELSE ReturnNone([u.self EXCEPT
             !.cluster_sizes = Some(DictSet(Val(u.self.cluster_sizes), -1, Cardinality(Val(u.val)))),
             !.items_dict = Some(DictSet(Val(u.self.items_dict), -1, Val(u.val)))])

label_item_by_cluster(s, e) ==
    IF ~ComplexNonEmpty(e.disk.complex) THEN Raise(s)           \* AssertionError
    ELSE IF IsNone(TupperClean(e.clean_file))
    THEN Raise(ResetClusterCaches(s))                           \* len(None)
    ELSE StoreUnclustered(
             prop_unclustered_items(
                 LabelComponents(ResetClusterCaches(s), e.disk.components,
                                 DictGet(e.disk.complex, "nodes"),
                                 TableLen(Val(TupperClean(e.clean_file)))),
                 e))

\* property Model.cluster_ids
prop_cluster_ids(s, e) ==
    IF IsNone(s.cluster_ids)
    THEN ReturnField(label_item_by_cluster(s, e), "cluster_ids")
    ELSE Return(s, Val(s.cluster_ids))

\* property Model.cluster_sizes
prop_cluster_sizes(s, e) ==
    IF IsNone(s.cluster_sizes)
    THEN ReturnField(label_item_by_cluster(s, e), "cluster_sizes")
    ELSE Return(s, Val(s.cluster_sizes))

\* property Model.items_dict
prop_items_dict(s, e) ==
    IF IsNone(s.items_dict)
    THEN ReturnField(label_item_by_cluster(s, e), "items_dict")
    ELSE Return(s, Val(s.items_dict))

\* ------------------------------------------------ get_items_in_multiple_groups
\* value_counts[value]: the number of per-cluster lists holding the item.
ValueCount(d, value) == Cardinality({i \in 1 .. Len(d) : value \in d[i].val})

\* The keys of the lists that hold the item, in dict order.
GroupsOf(d, value) == DictKeys(SelectSeq(d, LAMBDA en : value \in en.val))

\* The returned mapping: item -> keys, for the items counted more than once.
OverlappingValues(d) ==
    [value \in {v \in UNION {d[i].val : i \in 1 .. Len(d)} : ValueCount(d, v) > 1}
        |-> GroupsOf(d, value)]

\* The body of the method, given the outcome r of self.items_dict.
OverlapReport(r) ==
    IF ~r.ok THEN Raise(r.self) ELSE Return(r.self, OverlappingValues(Val(r.val)))

get_items_in_multiple_groups(s, e) == OverlapReport(prop_items_dict(s, e))

\* ------------------------------------------------------------ get_cluster_dfs
\* f"group_{group_label}"
GroupKey(group_label) == <<"group_", group_label>>

\* The frame of one group: the rows of the cleaned table whose 'group' cell was
\* set to the label, joined with the raw rows of the same index.
GroupFrame(df, indexes) == {i \in DOMAIN df : i \in indexes}

\* The loop over self.items_dict.items(), given the outcome r of
\* self.items_dict and the value clean of self.tupper.clean.
GroupFrames(r, clean) ==
    IF ~r.ok THEN Raise(r.self)
    ELSE IF Len(Val(r.val)) = 0 THEN Return(r.self, EmptyDict)
    ELSE IF IsNone(clean) THEN Raise(r.self)                    \* None.copy()
    ELSE Return(r.self,
                [i \in 1 .. Len(Val(r.val)) |->
                    [key |-> GroupKey(Val(r.val)[i].key),
                     val |-> GroupFrame(Val(clean), Val(r.val)[i].val)]])

get_cluster_dfs(s, e) == GroupFrames(prop_items_dict(s, e), TupperClean(e.clean_file))

\* ------------------------------------------------------------ target_matching
\* self.index_dict = self.get_cluster_dfs(), given the outcome g of the call.
StoreIndexDict(g) ==
    IF ~g.ok THEN Raise(g.self)
    ELSE ReturnNone([g.self EXCEPT !.index_dict = Some(Val(g.val))])

\* Mutant: the unclustered group is popped from self.items_dict as well.
PopUnclusteredItems(s) ==
    [s EXCEPT !.index_dict = Some(DictPop(Val(s.index_dict), GroupKey(-1))),
              !.items_dict = Some(DictPop(Val(s.items_dict), -1))]

\* self.index_dict.pop("group_-1")
PopUnclustered(s) == [s EXCEPT !.index_dict = Some(DictPop(Val(s.index_dict), GroupKey(-1)))]

\* Mutant: the group is popped whether or not an item is unclustered.
PopAlways(u) ==
    IF ~u.ok THEN Raise(u.self)
    ELSE IF ~DictHas(Val(u.self.index_dict), GroupKey(-1)) THEN Raise(u.self)
    ELSE ReturnNone(PopUnclustered(u.self))

\* if ... len(self.unclustered_items) > 0: pop, given the outcome u of
\* self.unclustered_items.
PopIfUnclustered(u) ==
    IF ~u.ok THEN Raise(u.self)
    ELSE IF Cardinality(Val(u.val)) = 0 THEN ReturnNone(u.self)
    ELSE IF ~DictHas(Val(u.self.index_dict), GroupKey(-1)) THEN Raise(u.self)    \* KeyError
    ELSE ReturnNone(PopUnclustered(u.self))

\* if remove_unclustered and ...: the property is read only when the flag is set.
RemoveUnclustered(t, e, remove_unclustered) ==
    IF ~t.ok \/ ~remove_unclustered THEN t
    ELSE PopIfUnclustered(prop_unclustered_items(t.self, e))

\* The target record: a one-row frame, each cell a number, a missing value
\* (NaN) or a string.
EmptyTarget == [columns |-> <<>>, cells |-> <<>>]

\* target.select_dtypes(include=np.number).dropna(axis=1).columns
TargetCols(target) ==
    SelectSeq(target.columns, LAMBDA c : target.cells[c].kind = "number")

\* if col_filter: raw_cols = col_filter, else the numeric columns of raw; None
\* and the empty list are both falsy.
RawCols(e, col_filter) ==
    IF IsNone(col_filter) THEN RawNumeric(e.data.raw)
    ELSE IF Len(Val(col_filter)) = 0 THEN RawNumeric(e.data.raw)
    ELSE Val(col_filter)

\* Floats: a finite value is kept as an integer number of 1/ScoreScale, which
\* is exact for every quotient by a column sum of up to NumItems cells.
RECURSIVE Factorial(_)
Factorial(n) == IF n <= 1 THEN 1 ELSE n * Factorial(n - 1)

ScoreScale == Factorial(NumItems)

Fin(num) == [kind |-> "fin", num |-> num]
Inf == [kind |-> "inf", num |-> 0]
NaN == [kind |-> "nan", num |-> 0]

Abs(x) == IF x < 0 THEN -x ELSE x

\* a + b on floats
FloatAdd(x, y) ==
    IF x.kind = "nan" \/ y.kind = "nan" THEN NaN
    ELSE IF x.kind = "inf" \/ y.kind = "inf" THEN Inf
    ELSE Fin(x.num + y.num)

\* a < b on floats: False whenever one side is NaN.
FloatLess(x, y) ==
    /\ x.kind # "nan"
    /\ y.kind # "nan"
    /\ x.kind = "fin"
    /\ (y.kind = "inf" \/ x.num < y.num)

\* group_data[col].mean(): the fraction sum / n; NaN (n = 0) for no row.
ColumnMean(column, rows) == [sum |-> SumOver(column, rows), n |-> Cardinality(rows)]

\* abs((x - mu) / mu) in numpy floats: a division by zero gives inf, or NaN for
\* 0 / 0, with a warning and no exception.
error(x, mu) ==
    IF mu.n = 0 THEN NaN
    ELSE IF mu.sum = 0 THEN (IF x = 0 THEN NaN ELSE Inf)
    ELSE Fin((ScoreScale * Abs(x * mu.n - mu.sum)) \div mu.sum)

\* The loop over target_cols for one group, from the k-th column on: the score,
\* or the exception of group_data[col] (KeyError) or of mean() on a column of
\* strings (TypeError).
RECURSIVE ColumnLoop(_, _, _, _, _, _, _)
ColumnLoop(target, cols, k, score, group_data, raw, raw_cols) ==
    IF k > Len(cols) THEN [ok |-> TRUE, score |-> score]
    ELSE IF \A j \in 1 .. Len(raw_cols) : raw_cols[j] # cols[k]
    THEN ColumnLoop(target, cols, k + 1, score, group_data, raw, raw_cols)
    ELSE IF \A j \in 1 .. Len(raw.columns) : raw.columns[j] # cols[k]
    THEN [ok |-> FALSE, score |-> score]
    ELSE IF raw.kinds[cols[k]] # "number" /\ group_data # {}
    THEN [ok |-> FALSE, score |-> score]
    ELSE ColumnLoop(target, cols, k + 1,
                    FloatAdd(score,
                             error(target.cells[cols[k]].val,
                                   IF raw.kinds[cols[k]] = "number"
                                   THEN ColumnMean(raw.data[cols[k]], group_data)
                                   ELSE [sum |-> 0, n |-> 0])),
                    group_data, raw, raw_cols)

\* The loop over self.index_dict, from the k-th group on: the scores dict.
RECURSIVE GroupLoop(_, _, _, _, _, _)
RECURSIVE GroupStep(_, _, _, _, _, _, _)
GroupStep(index, k, scores, target, raw, raw_cols, column_loop) ==
    IF ~column_loop.ok THEN [ok |-> FALSE, scores |-> scores]
    ELSE GroupLoop(index, k + 1,
                   Append(scores, [key |-> index[k].key, val |-> column_loop.score]),
                   target, raw, raw_cols)

GroupLoop(index, k, scores, target, raw, raw_cols) ==
    IF k > Len(index) THEN [ok |-> TRUE, scores |-> scores]
    ELSE GroupStep(index, k, scores, target, raw, raw_cols,
                   ColumnLoop(target, TargetCols(target), 1, Fin(0), index[k].val,
                              raw, raw_cols))

\* Mutant: the last of the smallest scores wins.
RECURSIVE PyMinLast(_, _, _)
PyMinLast(scores, k, best) ==
    IF k > Len(scores) THEN best
    ELSE PyMinLast(scores, k + 1,
                   IF ~FloatLess(scores[best].val, scores[k].val) THEN k ELSE best)

\* min(scores, key=scores.get): the position kept is replaced only by a later
\* one whose score compares smaller.
RECURSIVE PyMin(_, _, _)
PyMin(scores, k, best) ==
    IF k > Len(scores) THEN best
    ELSE PyMin(scores, k + 1,
               IF FloatLess(scores[k].val, scores[best].val) THEN k ELSE best)

\* min_index = min(...) and the return; min() of no score is a ValueError.
MinIndex(s, loop) ==
    IF ~loop.ok THEN Raise(s)
    ELSE IF Len(loop.scores) = 0 THEN Raise(s)
    ELSE Return(s, [scores |-> loop.scores,
                    min_index |-> loop.scores[PyMin(loop.scores, 2, 1)].key])

\* The part of the method after the unclustered group was dealt with.
ScoreGroups(t, e, target, col_filter) ==
    IF ~t.ok THEN t
    ELSE MinIndex(t.self,
                  GroupLoop(Val(t.self.index_dict), 1, <<>>, target, e.data.raw,
                            RawCols(e, col_filter)))

target_matching(s, e, target, remove_unclustered, col_filter) ==
    ScoreGroups(RemoveUnclustered(StoreIndexDict(get_cluster_dfs(s, e)), e, remove_unclustered),
                e, target, col_filter)

\* ------------------------------------------------- zscores, group_identifiers
\* The elements of a finite set of integers in increasing order.
RECURSIVE SortedSeq(_)
SortedSeq(S) ==
    IF S = {} THEN <<>>
    ELSE <<CHOOSE x \in S : \A y \in S : x <= y>>
             \o SortedSeq(S \ {CHOOSE x \in S : \A y \in S : x <= y})

\* The frame built from the cleaned table, the z-score zs of each of its cells
\* and the outcome c of model.cluster_ids.
ZscoreFrame(c, clean, zs) ==
    IF ~c.ok THEN Raise(c.self)
    ELSE Return(c.self,
                [columns |-> zs.columns,
                 rows |-> [i \in DOMAIN clean |->
                             [cluster_IDs |-> Val(c.val)[i],
                              cells |-> [X \in {zs.columns[j] : j \in 1 .. Len(zs.columns)}
                                            |-> zs.data[X][i]]]]])

\* _define_zscore_df(self): one row per item of the cleaned table, carrying the
\* item's z-score in every feature column and its cluster id in the column
\* cluster_IDs.
define_zscore_df(s, e) ==
    IF IsNone(TupperClean(e.clean_file)) THEN Raise(s)
    ELSE ZscoreFrame(prop_cluster_ids(s, e), Val(TupperClean(e.clean_file)), e.data.zscore)

\* df[df["cluster_IDs"] == id]: the rows of the frame with that cluster id.
RowsOf(df, id) == {i \in DOMAIN df.rows : df.rows[i].cluster_IDs = id}

\* The column X of the frame.
ColumnOf(df, X) == [i \in DOMAIN df.rows |-> df.rows[i].cells[X]]

\* The rows of the grouped table for the cluster ids `ids`: the mean of every
\* feature column over the items of the id.
GroupMeans(df, ids) ==
    [columns |-> df.columns,
     rows |-> [k \in 1 .. Len(ids) |->
                 [cluster_IDs |-> ids[k],
                  cells |-> [X \in {df.columns[j] : j \in 1 .. Len(df.columns)}
                                |-> ColumnMean(ColumnOf(df, X), RowsOf(df, ids[k]))]]]]

\* .groupby(["cluster_IDs"]).mean().reset_index(): one row per cluster id that
\* labels some item, in increasing order of the id.
GroupByClusterIds(df) ==
    GroupMeans(df, SortedSeq({df.rows[i].cluster_IDs : i \in DOMAIN df.rows}))

\* self._zscores = ..., given the outcome r of _define_zscore_df(self).
StoreZscores(r) ==
    IF ~r.ok THEN Raise(r.self)
    ELSE Return([r.self EXCEPT !.zscores = Some(GroupByClusterIds(Val(r.val)))],
                GroupByClusterIds(Val(r.val)))

\* property Model.zscores
prop_zscores(s, e) ==
    IF IsNone(s.zscores)
    THEN StoreZscores(define_zscore_df(s, e))
    ELSE Return(s, Val(s.zscores))

\* abs(value) >= zscore_threshold, for the mean `value` of a group.
AtLeast(value, zscore_threshold) ==
    value.n > 0 /\ Abs(value.sum) >= zscore_threshold * value.n

\* abs(test[column].std() / test[column].mean()) <= std_threshold, with
\* std^2 = V / (n (n - 1)) and mean = S / n: False for the NaN of fewer than two
\* rows and for the inf or NaN of a mean of 0.
Stable(column, rows, std_threshold) ==
    /\ Cardinality(rows) >= 2
    /\ SumOver(column, rows) # 0
    /\ ColumnStd(column, rows) * Cardinality(rows)
          <= std_threshold * std_threshold * SumOver(column, rows) * SumOver(column, rows)
                * (Cardinality(rows) - 1)

\* The two loops: the k-th value of a column is tested with counter = k - 2,
\* on the rows of the frame `test` whose cluster id is the counter; the key
\* i - 2 collects the columns appended to it, in the order of the columns.
Appended(table, test, zscore_threshold, std_threshold) ==
    [i \in 1 .. (table.rows[Len(table.rows)].cluster_IDs + 2) |->
        [key |-> i - 2,
         val |-> SelectSeq(table.columns,
                           LAMBDA X : /\ i <= Len(table.rows)
                                      /\ AtLeast(table.rows[i].cells[X], zscore_threshold)
                                      /\ Stable(ColumnOf(test, X), RowsOf(test, i - 2),
                                                std_threshold))]]

\* Some value passes the first test, so that _define_zscore_df is called again.
NeedsTestFrame(table, zscore_threshold) ==
    \E k \in 1 .. Len(table.rows) : \E j \in 1 .. Len(table.columns) :
        AtLeast(table.rows[k].cells[table.columns[j]], zscore_threshold)

\* self._group_identifiers = pg_identifiers, and the return.
StoreIdentifiers(s, pg_identifiers) ==
    Return([s EXCEPT !.group_ids = Some(pg_identifiers)], pg_identifiers)

\* pg_identifiers: a key for every id in range(-1, max + 1), each with the list
\* of the columns appended to it; given the outcome z of self.zscores and the
\* outcome t of _define_zscore_df(self).
PgIdentifiers(z, t, zscore_threshold, std_threshold) ==
    IF ~z.ok THEN Raise(z.self)
    ELSE IF ~NeedsTestFrame(Val(z.val), zscore_threshold)
    THEN StoreIdentifiers(z.self, [i \in 1 .. (Val(z.val).rows[Len(Val(z.val).rows)].cluster_IDs + 2)
                                      |-> [key |-> i - 2, val |-> <<>>]])
    ELSE IF ~t.ok THEN Raise(t.self)
    ELSE StoreIdentifiers(t.self, Appended(Val(z.val), Val(t.val), zscore_threshold, std_threshold))

\* The body of the method, given the outcome z of the first read of self.zscores.
IdentifyGroups(z, e, zscore_threshold, std_threshold) ==
    PgIdentifiers(z, IF z.ok THEN define_zscore_df(z.self, e) ELSE z,
                  zscore_threshold, std_threshold)

group_identifiers(s, e, zscore_threshold, std_threshold) ==
    IdentifyGroups(prop_zscores(s, e), e, zscore_threshold, std_threshold)

\* ------------------------------------------------------------------ actions
CleanFileStates == {"ok", "unreadable"}

Accessors == {"node_ids", "unclustered_items", "cluster_ids", "cluster_sizes", "items_dict"}

\* The instance after Model.__init__, in any environment.
InitModel ==
    /\ disk \in Artifacts
    /\ clean_file \in CleanFileStates
    /\ tupper_files = [raw |-> "ok", projection |-> "ok"]
    /\ changes = 0
    /\ node_ids = None
    /\ unclustered_items = None
    /\ cluster_ids = None
    /\ cluster_sizes = None
    /\ items_dict = None
    /\ zscores = None
    /\ group_ids = None
    /\ index_dict = None
    /\ node_description = None
    /\ cluster_descriptions = None
    /\ ret = [op |-> "__init__", ok |-> TRUE, val |-> None]

Init ==
    /\ InitModel
    /\ data = NoCells
    /\ fn_args = None
    /\ first_read = [acc |-> "none", val |-> None]

\* The same, with the reads of one accessor under watch.
InitReads ==
    /\ InitModel
    /\ data = NoCells
    /\ fn_args = None
    /\ first_read \in {[acc |-> a, val |-> None] : a \in Accessors}

\* The instance after a call with outcome r.
Finish(op, r) ==
    /\ node_ids' = r.self.node_ids
    /\ unclustered_items' = r.self.unclustered_items
    /\ cluster_ids' = r.self.cluster_ids
    /\ cluster_sizes' = r.self.cluster_sizes
    /\ items_dict' = r.self.items_dict
    /\ zscores' = r.self.zscores
    /\ group_ids' = r.self.group_ids
    /\ index_dict' = r.self.index_dict
    /\ node_description' = r.self.node_description
    /\ cluster_descriptions' = r.self.cluster_descriptions
    /\ ret' = [op |-> op, ok |-> r.ok, val |-> r.val]

\* The same after a read of accessor a: the history keeps the first value the
\* watched accessor returned.
FinishRead(a, r) ==
    /\ Finish(a, r)
    /\ first_read' = IF r.ok /\ first_read.acc = a /\ IsNone(first_read.val)
                     THEN [first_read EXCEPT !.val = r.val]
                     ELSE first_read

LabelItemByNode ==
    /\ Finish("label_item_by_node", label_item_by_node(Self, Env))
    /\ UNCHANGED <<disk, clean_file, tupper_files, data, changes, fn_args, first_read>>

LabelItemByCluster ==
    /\ Finish("label_item_by_cluster", label_item_by_cluster(Self, Env))
    /\ UNCHANGED <<disk, clean_file, tupper_files, data, changes, fn_args, first_read>>

GetItemsInMultipleGroups ==
    /\ Finish("get_items_in_multiple_groups", get_items_in_multiple_groups(Self, Env))
    /\ UNCHANGED <<disk, clean_file, tupper_files, data, changes, fn_args, first_read>>

GetClusterDfs ==
    /\ Finish("get_cluster_dfs", get_cluster_dfs(Self, Env))
    /\ UNCHANGED <<disk, clean_file, tupper_files, data, changes, fn_args, first_read>>

\* The arguments of a call of target_matching: the ones under study when they
\* are given, else an empty record matched with either flag and no filter.
MatchArgs ==
    IF IsNone(fn_args)
    THEN {[target |-> EmptyTarget, remove_unclustered |-> flag, col_filter |-> None] :
             flag \in BOOLEAN}
    ELSE {Val(fn_args)}

TargetMatching ==
    /\ \E args \in MatchArgs :
          Finish("target_matching",
                 target_matching(Self, Env, args.target, args.remove_unclustered,
                                 args.col_filter))
    /\ UNCHANGED <<disk, clean_file, tupper_files, data, changes, fn_args, first_read>>

\* The thresholds of a call of group_identifiers: the ones under study when
\* they are given, else the defaults.
IdentifierArgs ==
    IF IsNone(fn_args) THEN {[zscore_threshold |-> 1, std_threshold |-> 1]} ELSE {Val(fn_args)}

GroupIdentifiers ==
    /\ \E args \in IdentifierArgs :
          Finish("group_identifiers",
                 group_identifiers(Self, Env, args.zscore_threshold, args.std_threshold))
    /\ UNCHANGED <<disk, clean_file, tupper_files, data, changes, fn_args, first_read>>

ReadNodeIds ==
    /\ FinishRead("node_ids", prop_node_ids(Self, Env))
    /\ UNCHANGED <<disk, clean_file, tupper_files, data, changes, fn_args>>

ReadUnclusteredItems ==
    /\ FinishRead("unclustered_items", prop_unclustered_items(Self, Env))
    /\ UNCHANGED <<disk, clean_file, tupper_files, data, changes, fn_args>>

ReadClusterIds ==
    /\ FinishRead("cluster_ids", prop_cluster_ids(Self, Env))
    /\ UNCHANGED <<disk, clean_file, tupper_files, data, changes, fn_args>>

ReadClusterSizes ==
    /\ FinishRead("cluster_sizes", prop_cluster_sizes(Self, Env))
    /\ UNCHANGED <<disk, clean_file, tupper_files, data, changes, fn_args>>

ReadItemsDict ==
    /\ FinishRead("items_dict", prop_items_dict(Self, Env))
    /\ UNCHANGED <<disk, clean_file, tupper_files, data, changes, fn_args>>

\* The environment: the fitting process rewrites the mapper pickle.
RewriteArtifact ==
    /\ changes < MaxChanges
    /\ disk' \in Refits(disk)
    /\ changes' = changes + 1
    /\ ret' = [op |-> "rewrite", ok |-> TRUE, val |-> None]
    /\ UNCHANGED <<clean_file, tupper_files, data, node_ids, node_description, cluster_descriptions,
                   unclustered_items, cluster_ids, cluster_sizes, items_dict, zscores,
                   group_ids, index_dict, fn_args, first_read>>

\* The environment: the clean pickle becomes unreadable, or readable again.
SetCleanFile ==
    /\ clean_file' \in CleanFileStates \ {clean_file}
    /\ ret' = [op |-> "clean_file", ok |-> TRUE, val |-> None]
    /\ UNCHANGED <<disk, tupper_files, data, changes, node_ids, node_description, cluster_descriptions,
                   unclustered_items, cluster_ids, cluster_sizes, items_dict, zscores,
                   group_ids, index_dict, fn_args, first_read>>

\* The labelling operations, and the overlap report that reads their result.
NextLabel ==
    \/ LabelItemByNode
    \/ LabelItemByCluster
    \/ GetItemsInMultipleGroups
    \/ RewriteArtifact
    \/ SetCleanFile

SpecLabel == Init /\ [][NextLabel]_vars

\* Only accessor reads, in a changing environment.
NextReads ==
    \/ ReadNodeIds
    \/ ReadUnclusteredItems
    \/ ReadClusterIds
    \/ ReadClusterSizes
    \/ ReadItemsDict
    \/ RewriteArtifact
    \/ SetCleanFile

SpecReads == InitReads /\ [][NextReads]_vars

\* The queries, which derive the cluster labelling when they first need it.
NextQuery ==
    \/ GetItemsInMultipleGroups
    \/ GetClusterDfs
    \/ TargetMatching
    \/ GroupIdentifiers
    \/ RewriteArtifact
    \/ SetCleanFile

SpecQuery == Init /\ [][NextQuery]_vars

\* ------------------------------------------------------------ get_minimal_std
\* A DataFrame: its column labels in order, and one value per column and row.
Columns == <<"a", "b", "c">>
ColumnSet == {Columns[i] : i \in 1 .. Len(Columns)}
CellValues == {0, 1}
Frames == {[columns |-> Columns, data |-> d] : d \in [ColumnSet -> [Items -> CellValues]]}

\* Mutant: argmax() in place of argmin().
ArgMax(seq) ==
    CHOOSE i \in 1 .. Len(seq) :
        /\ \A j \in 1 .. Len(seq) : seq[i] >= seq[j]
        /\ \A j \in 1 .. (i - 1) : seq[j] < seq[i]

\* argmin(): the position of the first smallest entry.
ArgMin(seq) ==
    CHOOSE i \in 1 .. Len(seq) :
        /\ \A j \in 1 .. Len(seq) : seq[i] <= seq[j]
        /\ \A j \in 1 .. (i - 1) : seq[j] > seq[i]

\* The possible outcomes of get_minimal_std(df, mask, density_cols). With fewer
\* than two rows every std is NaN; argmin() of an all-NaN Series is -1 (the last
\* column) or a ValueError, depending on the installed pandas. argmin() of an
\* empty Series, when there is no column, is a ValueError.
get_minimal_std(df, mask, density_cols) ==
    LET cols == IF IsNone(density_cols) THEN df.columns ELSE Val(density_cols)
        stds == [k \in 1 .. Len(cols) |-> ColumnStd(df.data[cols[k]], mask)]
    IN  IF Len(cols) = 0 THEN {[ok |-> FALSE, val |-> None]}
        ELSE IF Cardinality(mask) < 2
        THEN {[ok |-> TRUE, val |-> Some(cols[Len(cols)])], [ok |-> FALSE, val |-> None]}
        ELSE {[ok |-> TRUE, val |-> Some(cols[ArgMin(stds)])]}

\* The column orders passed as density_cols.
ColumnOrders ==
    {order \in [1 .. Len(Columns) -> ColumnSet] :
        \A i, j \in 1 .. Len(Columns) : i # j => order[i] # order[j]}

\* The helper called on its own, on any frame, rows and column order.
InitMinStd ==
    /\ InitModel
    /\ data = NoCells
    /\ disk = Unfitted
    /\ clean_file = "ok"
    /\ first_read = [acc |-> "none", val |-> None]
    /\ fn_args \in {Some([df |-> df, mask |-> mask, density_cols |-> dc]) :
                       df \in Frames, mask \in SUBSET Items,
                       dc \in {None} \cup {Some(o) : o \in ColumnOrders}}

GetMinimalStd ==
    /\ ret.op = "__init__"
    /\ ~IsNone(fn_args)
    /\ \E r \in get_minimal_std(Val(fn_args).df, Val(fn_args).mask, Val(fn_args).density_cols) :
          ret' = [op |-> "get_minimal_std", ok |-> r.ok, val |-> r.val]
    /\ UNCHANGED <<disk, clean_file, tupper_files, data, changes, node_ids, node_description,
                   cluster_descriptions, unclustered_items, cluster_ids,
                   cluster_sizes, items_dict, zscores, group_ids, index_dict, fn_args,
                   first_read>>

SpecMinStd == InitMinStd /\ [][GetMinimalStd]_vars

\* ---------------------------------------------------- compute_node_descriptions
\* np.intersect1d(x, y): the labels common to both, unique and sorted (Columns
\* lists the labels in sorted order).
Intersect1d(x, y) ==
    SelectSeq(Columns, LAMBDA c : /\ \E i \in 1 .. Len(x) : x[i] = c
                                  /\ \E j \in 1 .. Len(y) : y[j] = c)

\* Mutant: the common labels in the order of the cleaned table's columns.
DensityColsInSchemaOrder(e) ==
    SelectSeq(e.data.clean.columns,
              LAMBDA c : \E i \in 1 .. Len(RawNumeric(e.data.raw)) : RawNumeric(e.data.raw)[i] = c)

\* cols = np.intersect1d(raw numeric columns, self.tupper.clean.columns)
DensityCols(e) == Intersect1d(RawNumeric(e.data.raw), e.data.clean.columns)

\* The outcome of get_minimal_std under the installed pandas.
MinimalStdIn(outcomes, argmin_all_nan) ==
    CHOOSE r \in outcomes : Cardinality(outcomes) = 1 \/ (r.ok <=> argmin_all_nan = "last")

\* label = get_minimal_std(df=self.tupper.clean, mask=mask, density_cols=cols)
MinimalStd(e, mask) ==
    MinimalStdIn(get_minimal_std(e.data.clean, mask, Some(DensityCols(e))),
                 e.data.argmin_all_nan)

\* The loop over nodes.keys(), from the k-th node on: the description built so
\* far, and whether the loop ran to its end.
RECURSIVE DescribeNodes(_, _, _, _)
RECURSIVE DescribeNode(_, _, _, _, _)
DescribeNode(nodes, k, acc, e, label) ==
    IF ~label.ok THEN [ok |-> FALSE, description |-> acc]
    ELSE DescribeNodes(nodes, k + 1,
                       DictSet(acc, nodes[k].key,
                               [label |-> Val(label.val), size |-> Cardinality(nodes[k].val)]),
                       e)

DescribeNodes(nodes, k, acc, e) ==
    IF k > Len(nodes) THEN [ok |-> TRUE, description |-> acc]
    ELSE DescribeNode(nodes, k, acc, e, MinimalStd(e, nodes[k].val))

\* self._node_description = {} and the entries the loop wrote into it.
StoreNodeDescription(s, loop) ==
    IF loop.ok THEN ReturnNone([s EXCEPT !.node_description = Some(loop.description)])
    ELSE Raise([s EXCEPT !.node_description = Some(loop.description)])

compute_node_descriptions(s, e) ==
    IF ~DictHas(e.disk.complex, "nodes") THEN Raise(s)          \* KeyError
    ELSE IF IsNone(TupperClean(e.clean_file)) THEN Raise(s)     \* None.columns
    ELSE StoreNodeDescription(s, DescribeNodes(DictGet(e.disk.complex, "nodes"), 1, EmptyDict, e))

\* property Model.node_description
prop_node_description(s, e) ==
    IF IsNone(s.node_description)
    THEN ReturnField(compute_node_descriptions(s, e), "node_description")
    ELSE Return(s, Val(s.node_description))

\* ------------------------------------------------- compute_cluster_descriptions
\* The node descriptions of the nodes of one component, in the order the nodes
\* are visited.
NodesOf(component) == SelectSeq(NodeOrder, LAMBDA n : n \in component)

DescriptionsOf(node_descr, component) ==
    [k \in 1 .. Len(NodesOf(component)) |-> DictGet(node_descr, NodesOf(component)[k])]

\* Mutant: holder[label] keeps the size of the last node with the label.
RECURSIVE HolderLoopOverwrite(_, _, _)
HolderLoopOverwrite(descriptions, k, holder) ==
    IF k > Len(descriptions) THEN holder
    ELSE HolderLoopOverwrite(descriptions, k + 1,
                             DictSet(holder, descriptions[k].label, descriptions[k].size))

\* The loop over the nodes of a component: holder[label] adds up the sizes of
\* the nodes that share the label.
RECURSIVE HolderLoop(_, _, _)
HolderLoop(descriptions, k, holder) ==
    IF k > Len(descriptions) THEN holder
    ELSE HolderLoop(descriptions, k + 1,
                    DictSet(holder, descriptions[k].label,
                            descriptions[k].size
                              + (IF DictHas(holder, descriptions[k].label)
                                 THEN DictGet(holder, descriptions[k].label) ELSE 0)))

\* N += size
RECURSIVE TotalSize(_)
TotalSize(descriptions) ==
    IF Len(descriptions) = 0 THEN 0
    ELSE descriptions[1].size + TotalSize(Tail(descriptions))

\* Mutant: the quotient is truncated to two decimals.
Truncate2(size, N) == (100 * size) \div N

\* np.round(size / N, 2), in hundredths: the nearest hundredth, the even one
\* when two are equally near.
Round2(size, N) ==
    IF 2 * ((100 * size) % N) < N THEN (100 * size) \div N
    ELSE IF 2 * ((100 * size) % N) > N THEN (100 * size) \div N + 1
    ELSE IF ((100 * size) \div N) % 2 = 0 THEN (100 * size) \div N
    ELSE (100 * size) \div N + 1

\* density = {label: np.round(size / N, 2) for label, size in holder.items()}
DensityOf(holder, N) ==
    [i \in 1 .. Len(holder) |-> [key |-> holder[i].key, val |-> Round2(holder[i].val, N)]]

Density(descriptions) ==
    DensityOf(HolderLoop(descriptions, 1, EmptyDict), TotalSize(descriptions))

\* The loop over components.keys(), from the k-th component on, reading the
\* node descriptions and the cluster sizes the properties returned: the
\* descriptions written so far, and whether the loop ran to its end.
RECURSIVE DescribeClusters(_, _, _, _, _)
DescribeClusters(components, k, acc, node_descr, sizes) ==
    IF k > Len(components) THEN [ok |-> TRUE, descriptions |-> acc]
    ELSE IF \E n \in components[k].key : ~DictHas(node_descr, n)          \* KeyError
    THEN [ok |-> FALSE, descriptions |-> acc]
    ELSE IF TotalSize(DescriptionsOf(node_descr, components[k].key)) = 0  \* ZeroDivisionError
    THEN [ok |-> FALSE, descriptions |-> acc]
    ELSE IF ~DictHas(sizes, components[k].val)                            \* KeyError
    THEN [ok |-> FALSE, descriptions |-> acc]
    ELSE DescribeClusters(components, k + 1,
             DictSet(acc, components[k].val,
                     [density |-> Density(DescriptionsOf(node_descr, components[k].key)),
                      size |-> DictGet(sizes, components[k].val)]),
             node_descr, sizes)

StoreClusterDescriptions(s, loop) ==
    IF loop.ok THEN ReturnNone([s EXCEPT !.cluster_descriptions = Some(loop.descriptions)])
    ELSE Raise([s EXCEPT !.cluster_descriptions = Some(loop.descriptions)])

\* The loop, given the outcome sizes of the first read of self.cluster_sizes.
DescribeAll(sizes, e) ==
    IF ~sizes.ok THEN Raise(sizes.self)
    ELSE StoreClusterDescriptions(sizes.self,
             DescribeClusters(e.disk.components, 1, EmptyDict,
                              Val(sizes.self.node_description), Val(sizes.val)))

\* The first component, given the outcome node_descr of the first read of
\* self.node_description: its nodes are looked up before self.cluster_sizes
\* is read.
DescribeFirst(node_descr, e) ==
    IF ~node_descr.ok THEN Raise(node_descr.self)
    ELSE IF \E n \in e.disk.components[1].key : ~DictHas(Val(node_descr.val), n)
    THEN Raise(node_descr.self)                                           \* KeyError
    ELSE DescribeAll(prop_cluster_sizes(node_descr.self, e), e)

\* self._cluster_descriptions = {} and the loop over the components.
ClusterLoop(s, e) ==
    IF Len(e.disk.components) = 0
    THEN ReturnNone([s EXCEPT !.cluster_descriptions = Some(EmptyDict)])
    ELSE DescribeFirst(prop_node_description(
                           [s EXCEPT !.cluster_descriptions = Some(EmptyDict)], e), e)

\* self._cluster_descriptions[-1] = {"density": {unclustered_label: 1.0},
\* "size": self.cluster_sizes[-1]}, given the outcome sizes of the read.
StoreUnclusteredDescription(sizes, unclustered_label) ==
    IF ~sizes.ok THEN Raise(sizes.self)
    ELSE IF ~DictHas(Val(sizes.val), -1) THEN Raise(sizes.self)           \* KeyError
    ELSE ReturnNone([sizes.self EXCEPT !.cluster_descriptions =
             Some(DictSet(Val(sizes.self.cluster_descriptions), -1,
                          [density |-> <<[key |-> unclustered_label, val |-> 100]>>,
                           size |-> DictGet(Val(sizes.val), -1)]))])

\* unclustered_label = get_minimal_std(..., mask=self.unclustered_items, ...),
\* given the outcome u of the read of self.unclustered_items.
UnclusteredLabel(u, e) ==
    IF ~u.ok THEN Raise(u.self)
    ELSE IF ~MinimalStd(e, Val(u.val)).ok THEN Raise(u.self)              \* ValueError
    ELSE StoreUnclusteredDescription(prop_cluster_sizes(u.self, e),
                                     Val(MinimalStd(e, Val(u.val)).val))

\* The density of the unclustered items, after the loop with outcome t.
UnclusteredDescription(t, e) ==
    IF ~t.ok THEN t
    ELSE IF IsNone(TupperClean(e.clean_file)) THEN Raise(t.self)          \* None.columns
    ELSE UnclusteredLabel(prop_unclustered_items(t.self, e), e)

compute_cluster_descriptions(s, e) == UnclusteredDescription(ClusterLoop(s, e), e)

\* property Model.cluster_descriptions
prop_cluster_descriptions(s, e) ==
    IF IsNone(s.cluster_descriptions)
    THEN ReturnField(compute_cluster_descriptions(s, e), "cluster_descriptions")
    ELSE Return(s, Val(s.cluster_descriptions))

\* The cells of the clean table in the runs of the description methods: the
\* first row holds 0 in every column.
DescrCells == {d \in [ColumnSet -> [Items -> CellValues]] : \A c \in ColumnSet : d[c][0] = 0}

\* The column orders of the clean table, and the dtypes of the raw columns.
SchemaOrders == {<<"a", "b", "c">>, <<"c", "b", "a">>}
RawKinds == {[c \in ColumnSet |-> "number"],
             [c \in ColumnSet |-> IF c = "a" THEN "object" ELSE "number"]}

DescrData ==
    {[clean |-> [columns |-> order, data |-> d],
      raw |-> [columns |-> Columns, kinds |-> kinds, data |-> d],
      zscore |-> EmptyFrame,
      argmin_all_nan |-> mode] :
        order \in SchemaOrders, d \in DescrCells, kinds \in RawKinds, mode \in ArgminAllNaN}

InitDescr ==
    /\ InitModel
    /\ IsFitted(disk)
    /\ clean_file = "ok"
    /\ data \in DescrData
    /\ fn_args = None
    /\ first_read = [acc |-> "none", val |-> None]

ComputeNodeDescriptions ==
    /\ Finish("compute_node_descriptions", compute_node_descriptions(Self, Env))
    /\ UNCHANGED <<disk, clean_file, tupper_files, data, changes, fn_args, first_read>>

ComputeClusterDescriptions ==
    /\ Finish("compute_cluster_descriptions", compute_cluster_descriptions(Self, Env))
    /\ UNCHANGED <<disk, clean_file, tupper_files, data, changes, fn_args, first_read>>

\* The description methods on a fitted mapper and readable data.
NextDescr ==
    \/ ComputeNodeDescriptions
    \/ ComputeClusterDescriptions

SpecDescr == InitDescr /\ [][NextDescr]_vars

\* The density of one component called on its own, on any list of node
\* descriptions: the k-th node has one of the first k labels.
MaxNodes == 6
MaxNodeSize == 2

\* The labels and the sizes of a list of n node descriptions.
NodeLabels(n) == {f \in [1 .. n -> 1 .. n] : \A k \in 1 .. n : f[k] <= k}
NodeSizes(n) == [1 .. n -> 1 .. MaxNodeSize]

InitDensity ==
    /\ InitModel
    /\ disk = Unfitted
    /\ clean_file = "ok"
    /\ data = NoCells
    /\ first_read = [acc |-> "none", val |-> None]
    /\ \E n \in 1 .. MaxNodes : \E labels \in NodeLabels(n), sizes \in NodeSizes(n) :
          fn_args = Some([descriptions |->
                             [k \in 1 .. n |-> [label |-> labels[k], size |-> sizes[k]]]])

ComputeDensity ==
    /\ ret.op = "__init__"
    /\ ret' = [op |-> "density", ok |-> TRUE, val |-> Some(Density(Val(fn_args).descriptions))]
    /\ UNCHANGED <<disk, clean_file, tupper_files, data, changes, node_ids, node_description,
                   cluster_descriptions, unclustered_items, cluster_ids, cluster_sizes,
                   items_dict, zscores, group_ids, index_dict, fn_args, first_read>>

SpecDensity == InitDensity /\ [][ComputeDensity]_vars

\* Calls of target_matching under study: a fitted mapper whose nodes share no
\* item, a raw table of two columns of which "b" may hold strings, and a target
\* record with a cell for "a" and possibly one for "b".
MatchColumns == <<"a", "b">>

MatchArtifacts ==
    {x \in Artifacts :
        /\ IsFitted(x)
        /\ \A i, j \in 1 .. Len(x.complex[1].val) :
              i # j => x.complex[1].val[i].val \cap x.complex[1].val[j].val = {}}

RawTables ==
    {[columns |-> MatchColumns, kinds |-> [a |-> "number", b |-> "number"], data |-> d] :
        d \in [{"a", "b"} -> [Items -> CellValues]]}
    \cup
    {[columns |-> MatchColumns, kinds |-> [a |-> "number", b |-> "object"],
      data |-> [a |-> col, b |-> [i \in Items |-> 0]]] : col \in [Items -> CellValues]}

MatchData ==
    {[clean |-> EmptyFrame, raw |-> raw, zscore |-> EmptyFrame, argmin_all_nan |-> "last"] :
        raw \in RawTables}

NumberCells == {[kind |-> "number", val |-> v] : v \in CellValues}
MissingCell == [kind |-> "missing", val |-> 0]
ObjectCell == [kind |-> "object", val |-> 0]

Targets ==
    {[columns |-> <<"a">>, cells |-> [a |-> ca]] : ca \in NumberCells \cup {MissingCell}}
    \cup
    {[columns |-> MatchColumns, cells |-> [a |-> ca, b |-> cb]] :
        ca \in NumberCells \cup {MissingCell}, cb \in NumberCells \cup {ObjectCell}}

ColFilters == {None, Some(<<"a">>), Some(<<"b">>)}

InitMatch ==
    /\ InitModel
    /\ disk \in MatchArtifacts
    /\ clean_file = "ok"
    /\ data \in MatchData
    /\ first_read = [acc |-> "none", val |-> None]
    /\ \E target \in Targets, flag \in BOOLEAN, col_filter \in ColFilters :
          fn_args = Some([target |-> target, remove_unclustered |-> flag,
                          col_filter |-> col_filter])

SpecMatch == InitMatch /\ [][TargetMatching]_vars

\* Calls of group_identifiers under study: a fitted mapper, readable data, the
\* z-scores of two feature columns and the two thresholds.
ZValues == {-2, 0, 2}

ZscoreTables ==
    {[columns |-> MatchColumns, data |-> [a |-> za, b |-> zb]] :
        za \in [Items -> ZValues], zb \in [Items -> {0, 2}]}

Thresholds == {[zscore_threshold |-> zt, std_threshold |-> st] : zt \in {1, 2}, st \in {0, 1}}

InitIdentify ==
    /\ InitModel
    /\ IsFitted(disk)
    /\ clean_file = "ok"
    /\ \E zs \in ZscoreTables :
          data = [clean |-> EmptyFrame, raw |-> EmptyRaw, zscore |-> zs,
                  argmin_all_nan |-> "last"]
    /\ fn_args \in {Some(t) : t \in Thresholds}
    /\ first_read = [acc |-> "none", val |-> None]

SpecIdentify == InitIdentify /\ [][GroupIdentifiers]_vars

\* ------------------------------------------------ std_zscore_threshold_filter
\* A column is a sequence of cells. With n cells of sum S, np.std (ddof = 0) is
\* sqrt(V) / n for V = n * sum(x^2) - S^2, and np.mean is S / n.
ColumnSum(col) == SumOver(col, DOMAIN col)

Variance(col) ==
    Len(col) * SumOver([i \in DOMAIN col |-> col[i] * col[i]], DOMAIN col)
        - ColumnSum(col) * ColumnSum(col)

\* Mutant: abs(zscore) >= zscore_threshold.
ZscoreAtLeast(col, global_mean, zscore_threshold) ==
    /\ Len(col) > 0
    /\ \/ Variance(col) = 0
       \/ (ColumnSum(col) - Len(col) * global_mean) * (ColumnSum(col) - Len(col) * global_mean)
             >= zscore_threshold * zscore_threshold * Variance(col)

\* Mutant: no np.inf for std == 0, the test fails for such a column.
ZscoreAboveFinite(col, global_mean, zscore_threshold) ==
    /\ Len(col) > 0
    /\ Variance(col) # 0
    /\ (ColumnSum(col) - Len(col) * global_mean) * (ColumnSum(col) - Len(col) * global_mean)
          > zscore_threshold * zscore_threshold * Variance(col)

\* abs(zscore) > zscore_threshold, for thresholds >= 0: zscore is np.inf when
\* std == 0 and (mean - global mean) / std otherwise; it is NaN, and the test
\* False, for a column without cells.
ZscoreAbove(col, global_mean, zscore_threshold) ==
    /\ Len(col) > 0
    /\ \/ Variance(col) = 0
       \/ (ColumnSum(col) - Len(col) * global_mean) * (ColumnSum(col) - Len(col) * global_mean)
             > zscore_threshold * zscore_threshold * Variance(col)

\* abs(std) < std_threshold, for thresholds >= 0
StdBelow(col, std_threshold) ==
    /\ Len(col) > 0
    /\ std_threshold > 0
    /\ Variance(col) < std_threshold * std_threshold * Len(col) * Len(col)

std_zscore_threshold_filter(col, global_mean, std_threshold, zscore_threshold) ==
    IF ZscoreAbove(col, global_mean, zscore_threshold) /\ StdBelow(col, std_threshold)
    THEN 0
    ELSE 1

\* The filter called on its own: columns of up to NumItems cells, the global
\* mean of the column and the two thresholds.
FilterValues == 0 .. 2

FilterColumns == UNION {[1 .. n -> FilterValues] : n \in 0 .. NumItems}

InitFilter ==
    /\ InitModel
    /\ disk = Unfitted
    /\ clean_file = "ok"
    /\ data = NoCells
    /\ first_read = [acc |-> "none", val |-> None]
    /\ \E col \in FilterColumns, g \in FilterValues, st \in FilterValues, zt \in FilterValues :
          fn_args = Some([col |-> col, global_mean |-> g, std_threshold |-> st,
                          zscore_threshold |-> zt])

StdZscoreThresholdFilter ==
    /\ ret.op = "__init__"
    /\ ret' = [op |-> "std_zscore_threshold_filter", ok |-> TRUE,
               val |-> Some(std_zscore_threshold_filter(Val(fn_args).col,
                                                        Val(fn_args).global_mean,
                                                        Val(fn_args).std_threshold,
                                                        Val(fn_args).zscore_threshold))]
    /\ UNCHANGED <<disk, clean_file, tupper_files, data, changes, node_ids, node_description,
                   cluster_descriptions, unclustered_items, cluster_ids, cluster_sizes,
                   items_dict, zscores, group_ids, index_dict, fn_args, first_read>>

SpecFilter == InitFilter /\ [][StdZscoreThresholdFilter]_vars

\* ------------------------------------------------------- the Tupper accessors
\* The state of a pickle at the time of an access: the path is missing, the
\* file cannot be opened or unpickled, the loaded dict lacks one of its keys, or
\* the file is as expected. Tupper.__init__ asserts that the three paths are
\* files, so that a path is missing only after construction.
RawFileStates == {"ok", "unreadable", "missing"}
CleanPickleStates == RawFileStates \cup {"lacks clean_data", "lacks dropped_columns"}
ProjectionFileStates == RawFileStates \cup {"lacks projection", "lacks hyperparameters"}

\* The body of an accessor on a pickle in state `file`: every exception of
\* open(), pickle.load() and reference[key] is caught and printed, and the
\* method then falls off its end, which returns None.
TupperLoad(file, lacking, content) ==
    IF file = "ok" \/ file \notin ({"unreadable", "missing"} \cup lacking)
    THEN [ok |-> TRUE, val |-> Some(content)]
    ELSE [ok |-> TRUE, val |-> None]

\* property Tupper.raw
TupperRaw(file) == TupperLoad(file, {}, "raw_df")

\* property Tupper.clean, with the outcome
TupperCleanRead(file) == TupperLoad(file, {"lacks clean_data"}, "clean_df")

get_dropped_columns(file) == TupperLoad(file, {"lacks dropped_columns"}, "dropped_columns")

\* property Tupper.projection
TupperProjection(file) == TupperLoad(file, {"lacks projection"}, "projection_array")

get_projection_parameters(file) ==
    TupperLoad(file, {"lacks hyperparameters"}, "projection_parameters")

\* A call of an accessor with outcome r.
TupperReturn(op, r) ==
    /\ ret' = [op |-> op, ok |-> r.ok, val |-> r.val]
    /\ UNCHANGED <<disk, clean_file, tupper_files, data, changes, node_ids, node_description,
                   cluster_descriptions, unclustered_items, cluster_ids, cluster_sizes,
                   items_dict, zscores, group_ids, index_dict, fn_args, first_read>>

ReadRaw ==
    /\ TupperReturn("raw", TupperRaw(tupper_files.raw))

ReadClean ==
    /\ TupperReturn("clean", TupperCleanRead(clean_file))

GetDroppedColumns ==
    /\ TupperReturn("get_dropped_columns", get_dropped_columns(clean_file))

ReadProjection ==
    /\ TupperReturn("projection", TupperProjection(tupper_files.projection))

GetProjectionParameters ==
    /\ TupperReturn("get_projection_parameters",
                    get_projection_parameters(tupper_files.projection))

\* The environment: one of the three pickles is removed, damaged, rewritten
\* without a key, or restored.
SetTupperFile ==
    /\ \/ /\ clean_file' \in CleanPickleStates \ {clean_file}
          /\ UNCHANGED tupper_files
       \/ /\ tupper_files' \in {[tupper_files EXCEPT !.raw = f] :
                                    f \in RawFileStates \ {tupper_files.raw}}
          /\ UNCHANGED clean_file
       \/ /\ tupper_files' \in {[tupper_files EXCEPT !.projection = f] :
                                    f \in ProjectionFileStates \ {tupper_files.projection}}
          /\ UNCHANGED clean_file
    /\ ret' = [op |-> "set_file", ok |-> TRUE, val |-> None]
    /\ UNCHANGED <<disk, data, changes, node_ids, node_description, cluster_descriptions,
                   unclustered_items, cluster_ids, cluster_sizes, items_dict, zscores,
                   group_ids, index_dict, fn_args, first_read>>

InitTupper ==
    /\ InitModel
    /\ disk = Unfitted
    /\ data = NoCells
    /\ fn_args = None
    /\ first_read = [acc |-> "none", val |-> None]

NextTupper ==
    \/ ReadRaw
    \/ ReadClean
    \/ GetDroppedColumns
    \/ ReadProjection
    \/ GetProjectionParameters
    \/ SetTupperFile

SpecTupper == InitTupper /\ [][NextTupper]_vars

\* ------------------------------------------- the order of mapper.components
\* A complex of three nodes, each holding any non-empty item set.
OrderNodes == <<"A", "B", "C">>

OrderNodeDicts ==
    {[i \in 1 .. Len(OrderNodes) |-> [key |-> OrderNodes[i], val |-> f[i]]]
        : f \in [1 .. Len(OrderNodes) -> ItemSets]}

\* The orders in which the keys of a dict can come: the same entries, permuted.
Orders(d) ==
    {[i \in 1 .. Len(d) |-> d[p[i]]]
        : p \in {f \in [1 .. Len(d) -> 1 .. Len(d)] : \A i, j \in 1 .. Len(d) : f[i] = f[j] => i = j}}

\* The component mappings of such a complex: three components of one node, or
\* one of two nodes and one of one, with distinct cluster ids, in any key order.
OrderComponents ==
    Orders(<<[key |-> {"A"}, val |-> 0], [key |-> {"B"}, val |-> 1], [key |-> {"C"}, val |-> 2]>>)
    \cup Orders(<<[key |-> {"A", "B"}, val |-> 0], [key |-> {"C"}, val |-> 1]>>)

InitOrder ==
    /\ disk \in {Fitted(nodes, comps) : nodes \in OrderNodeDicts, comps \in OrderComponents}
    /\ clean_file = "ok"
    /\ tupper_files = [raw |-> "ok", projection |-> "ok"]
    /\ changes = 0
    /\ node_ids = None
    /\ unclustered_items = None
    /\ cluster_ids = None
    /\ cluster_sizes = None
    /\ items_dict = None
    /\ zscores = None
    /\ group_ids = None
    /\ index_dict = None
    /\ node_description = None
    /\ cluster_descriptions = None
    /\ ret = [op |-> "__init__", ok |-> TRUE, val |-> None]
    /\ data = NoCells
    /\ fn_args = None
    /\ first_read = [acc |-> "none", val |-> None]

\* The environment: the fitting process writes the same components, with the
\* same cluster ids, in another key order.
ReorderComponents ==
    /\ disk' \in {[disk EXCEPT !.components = c] : c \in Orders(disk.components) \ {disk.components}}
    /\ ret' = [op |-> "reorder", ok |-> TRUE, val |-> None]
    /\ UNCHANGED <<clean_file, tupper_files, data, changes, node_ids, node_description,
                   cluster_descriptions, unclustered_items, cluster_ids, cluster_sizes,
                   items_dict, zscores, group_ids, index_dict, fn_args, first_read>>

NextOrder ==
    \/ LabelItemByCluster
    \/ ReorderComponents

SpecOrder == InitOrder /\ [][NextOrder]_vars

\* ===================================================================== claims
\* What the complex on disk says about an item, stated on the artifact itself.
DiskNodes == IF DictHas(disk.complex, "nodes") THEN DictGet(disk.complex, "nodes") ELSE EmptyDict

NodesHolding(i) == {DiskNodes[j].key : j \in {k \in 1 .. Len(DiskNodes) : i \in DiskNodes[k].val}}

ItemsOfComponent(k) ==
    {i \in Items : \E n \in disk.components[k].key : n \in NodesHolding(i)}

ComponentsHolding(i) == {k \in 1 .. Len(disk.components) : i \in ItemsOfComponent(k)}

NoItemInTwoComponents == \A i \in Items : Cardinality(ComponentsHolding(i)) <= 1

Completed(op) == ret.op = op /\ ret.ok

RECURSIVE SumValues(_)
SumValues(d) == IF Len(d) = 0 THEN 0 ELSE d[1].val + SumValues(Tail(d))

Largest(S) == CHOOSE x \in S : \A y \in S : y <= x

\* C1 (as stated): after label_item_by_cluster completes, the entries of
\* cluster_sizes, the one of cluster -1 included, add up to N.
C1_SizesSumToN_AsStated ==
    Completed("label_item_by_cluster") => SumValues(Val(cluster_sizes)) = NumItems

\* C1 (amended): after label_item_by_cluster completes, the entries of
\* cluster_sizes, the one of cluster -1 included, add up to N, provided that no
\* item lies in nodes of two components and that the memoized unclustered set is
\* the one of the complex now loaded.
C1_SizesSumToN ==
    ( /\ Completed("label_item_by_cluster")
      /\ NoItemInTwoComponents
      /\ Val(unclustered_items) = {i \in Items : NodesHolding(i) = {}} )
    => SumValues(Val(cluster_sizes)) = NumItems

C1_Witness ==
    /\ Completed("label_item_by_cluster")
    /\ NoItemInTwoComponents
    /\ Val(unclustered_items) = {i \in Items : NodesHolding(i) = {}}
    /\ Len(disk.components) = 2
    /\ Val(unclustered_items) # {}

\* C2: label_item_by_cluster invoked right after label_item_by_cluster, with
\* the artifact and the data files untouched in between, leaves cluster_ids,
\* cluster_sizes and items_dict as the first invocation left them.
C2_Idempotent ==
    [][(ret.op = "label_item_by_cluster" /\ LabelItemByCluster)
         => UNCHANGED <<cluster_ids, cluster_sizes, items_dict>>]_vars

C2_Witness ==
    /\ Completed("label_item_by_cluster")
    /\ Len(Val(items_dict)) = 3
    /\ \E i \in Items : Val(cluster_ids)[i] = 1
    /\ DictGet(Val(cluster_sizes), -1) = 1

\* C3 (as stated): on an artifact that was never rewritten,
\* get_items_in_multiple_groups returns the empty mapping exactly when no item
\* lies in nodes of two components, and reports every item that does.
C3_EmptyIffNoOverlap ==
    (Completed("get_items_in_multiple_groups") /\ changes = 0) =>
        /\ (DOMAIN Val(ret.val) = {}) <=> NoItemInTwoComponents
        /\ \A i \in Items : Cardinality(ComponentsHolding(i)) >= 2 => i \in DOMAIN Val(ret.val)

ExampleArtifact ==
    Fitted(<<[key |-> "A", val |-> {0, 1}], [key |-> "B", val |-> {1, 2}]>>,
           <<[key |-> {"A", "B"}, val |-> 0]>>)

\* C5: for every component, label_item_by_cluster records the union of the
\* item sets of its nodes as the cluster's members and the number of distinct
\* items of that union as its size; on a fresh engine the example complex gives
\* label 0 to items 0, 1, 2, size 3 to cluster 0 and N - 3 to cluster -1.
C5_ClusterMembership ==
    Completed("label_item_by_cluster") =>
        /\ \A k \in 1 .. Len(disk.components) :
              /\ DictGet(Val(items_dict), disk.components[k].val) = ItemsOfComponent(k)
              /\ DictGet(Val(cluster_sizes), disk.components[k].val)
                    = Cardinality(ItemsOfComponent(k))
        /\ (disk = ExampleArtifact /\ changes = 0) =>
              /\ \A i \in {0, 1, 2} : Val(cluster_ids)[i] = 0
              /\ DictGet(Val(cluster_sizes), 0) = 3
              /\ DictGet(Val(cluster_sizes), -1) = NumItems - 3

C5_Witness ==
    /\ Completed("label_item_by_cluster")
    /\ disk = ExampleArtifact
    /\ changes = 0

\* C6: an item held by several components is labelled with the cluster id of
\* the one processed last, and an item held by none keeps the label -1.
C6_LastComponentWins ==
    Completed("label_item_by_cluster") =>
        \A i \in Items :
            Val(cluster_ids)[i] =
                IF ComponentsHolding(i) = {} THEN -1
                ELSE disk.components[Largest(ComponentsHolding(i))].val

C6_Witness ==
    /\ Completed("label_item_by_cluster")
    /\ \E i \in Items : Cardinality(ComponentsHolding(i)) = 2 /\ Val(cluster_ids)[i] = 0
    /\ \E i \in Items : ComponentsHolding(i) = {} /\ Val(cluster_ids)[i] = -1

\* C7 (as stated): label_item_by_cluster raises, and computes no labelling,
\* whenever the complex has no node.
C7_FailsWithoutNodes ==
    (ret.op = "label_item_by_cluster" /\ Len(DiskNodes) = 0) => ~ret.ok

\* C8 (as stated): a read of a cached accessor returns what the first read of
\* that accessor returned.
C8_ReadsReturnFirstValue ==
    (ret.op = first_read.acc /\ ret.ok /\ ~IsNone(first_read.val)) => ret.val = first_read.val

QueryOps == {"get_items_in_multiple_groups", "get_cluster_dfs", "target_matching",
             "group_identifiers"}

\* C9: once the cluster labelling is derived, a call of one of the queries
\* leaves cluster_ids, cluster_sizes, items_dict, node_ids and
\* unclustered_items as they are.
C9_QueriesKeepLabels ==
    [][(~IsNone(cluster_ids) /\ ret'.op \in QueryOps)
         => UNCHANGED <<cluster_ids, cluster_sizes, items_dict, node_ids, unclustered_items>>]_vars

C9_Witness ==
    /\ Completed("target_matching")
    /\ ~IsNone(cluster_ids)
    /\ ~DictHas(Val(index_dict), GroupKey(-1))
    /\ DictHas(Val(items_dict), -1)
    /\ DictGet(Val(items_dict), -1) # {}

\* The rows and the column order of the call under test.
ArgFrame == Val(fn_args).df
ArgMask == Val(fn_args).mask
ArgCols == IF IsNone(Val(fn_args).density_cols) THEN ArgFrame.columns ELSE Val(Val(fn_args).density_cols)

SameValue(col) == \A i, j \in ArgMask : ArgFrame.data[col][i] = ArgFrame.data[col][j]

\* The column X of the claim: constant over the rows, every other column not.
OnlyConstantColumn(X) ==
    /\ SameValue(X)
    /\ \A k \in 1 .. Len(ArgCols) : ArgCols[k] # X => ~SameValue(ArgCols[k])

\* C10: over rows that all share one value in column X and not in any other
\* eligible column, minimal-std selection returns X, wherever X stands in the
\* column order.
C10_ZeroStdColumnSelected ==
    ret.op = "get_minimal_std" =>
        \A k \in 1 .. Len(ArgCols) :
            OnlyConstantColumn(ArgCols[k]) => ret.ok /\ ret.val = Some(ArgCols[k])

C10_Witness ==
    /\ ret.op = "get_minimal_std"
    /\ OnlyConstantColumn(ArgCols[Len(ArgCols)])
    /\ ArgCols[Len(ArgCols)] = "a"
    /\ ret.val = Some("a")

\* The columns a description may select: those of the clean table that are
\* numeric in the raw table; and their standard deviation over a set of items.
EligibleColumns ==
    {c \in ColumnSet : /\ \E i \in 1 .. Len(data.clean.columns) : data.clean.columns[i] = c
                       /\ data.raw.kinds[c] = "number"}

SmallestStd(mask) ==
    {c \in EligibleColumns :
        \A d \in EligibleColumns :
            ColumnStd(data.clean.data[c], mask) <= ColumnStd(data.clean.data[d], mask)}

FirstOf(order, S) == order[CHOOSE i \in 1 .. Len(order) :
                              order[i] \in S /\ \A j \in 1 .. (i - 1) : order[j] \notin S]

\* The nodes whose items have a standard deviation, with several columns tied
\* for the smallest.
TiedNodes ==
    {k \in 1 .. Len(DiskNodes) :
        Cardinality(DiskNodes[k].val) >= 2 /\ Cardinality(SmallestStd(DiskNodes[k].val)) >= 2}

\* C11 (as stated): when several eligible columns tie for the smallest
\* standard deviation over a node's items, the node's label is the tied column
\* that comes first in the column order of the clean table.
C11_TieFirstInSchema ==
    Completed("compute_node_descriptions") =>
        \A k \in TiedNodes :
            DictGet(Val(node_description), DiskNodes[k].key).label
                = FirstOf(data.clean.columns, SmallestStd(DiskNodes[k].val))

\* C11 (amended): when several eligible columns tie for the smallest standard
\* deviation over the items of a node with at least two items, the node's label
\* is the tied column whose name comes first in sorted order.
C11_TieFirstSorted ==
    Completed("compute_node_descriptions") =>
        \A k \in TiedNodes :
            DictGet(Val(node_description), DiskNodes[k].key).label
                = FirstOf(Columns, SmallestStd(DiskNodes[k].val))

C11_Witness ==
    /\ Completed("compute_node_descriptions")
    /\ \E k \in TiedNodes :
          /\ FirstOf(Columns, SmallestStd(DiskNodes[k].val))
                # FirstOf(data.clean.columns, SmallestStd(DiskNodes[k].val))
          /\ DictGet(Val(node_description), DiskNodes[k].key).label
                = FirstOf(Columns, SmallestStd(DiskNodes[k].val))

\* The densities of the density call under test, in hundredths, and how far
\* their sum lies from 1.0.
DensitySum == SumValues(Val(ret.val))

DensityGap == IF DensitySum >= 100 THEN DensitySum - 100 ELSE 100 - DensitySum

\* C12 (as stated): the densities of a cluster, each rounded to two decimals,
\* sum to a value within 0.01 of 1.0, whatever the number of labels and the
\* node sizes.
C12_DensitySumsToOne == ret.op = "density" => DensityGap <= 1

\* C12 (amended): the densities of a cluster with L distinct labels, each
\* rounded to two decimals, sum to a value within 0.005 * L of 1.0; this is
\* within 0.01 of 1.0 when the cluster has at most three distinct labels.
C12_DensitySumWithinHalfPerLabel ==
    ret.op = "density" =>
        /\ 2 * DensityGap <= Len(Val(ret.val))
        /\ Len(Val(ret.val)) <= 3 => DensityGap <= 1

C12_Witness ==
    /\ ret.op = "density"
    /\ Len(Val(ret.val)) = 3
    /\ Len(Val(fn_args).descriptions) = 5
    /\ DensityGap = 1

\* The items in no node of the complex, and the description of cluster -1.
UnclusteredOnDisk == {i \in Items : NodesHolding(i) = {}}

UnclusteredEntry == DictGet(Val(cluster_descriptions), -1)

\* Every node has the two items a standard deviation needs, and there is a
\* column to select.
NodesDescribable ==
    /\ EligibleColumns # {}
    /\ \A k \in 1 .. Len(DiskNodes) : Cardinality(DiskNodes[k].val) >= 2

\* C13 (as stated): compute_cluster_descriptions gives cluster -1 a description
\* with exactly one density entry, of value 1.0, keyed by the minimal-std
\* column over the unclustered items, and with the number of unclustered items
\* as its size, also when there are no unclustered items.
C13_UnclusteredDescription ==
    (ret.op = "compute_cluster_descriptions" /\ NodesDescribable) =>
        /\ ret.ok
        /\ DictHas(Val(cluster_descriptions), -1)
        /\ Len(UnclusteredEntry.density) = 1
        /\ UnclusteredEntry.density[1].val = 100
        /\ UnclusteredEntry.density[1].key \in
              (IF Cardinality(UnclusteredOnDisk) >= 2
               THEN SmallestStd(UnclusteredOnDisk) ELSE EligibleColumns)
        /\ UnclusteredEntry.size = Cardinality(UnclusteredOnDisk)

\* A completed call of target_matching, its arguments, the columns it compared
\* and the scores it returned, in the order of the groups.
MatchCall == ret.op = "target_matching" /\ ret.ok /\ ~IsNone(fn_args)

MatchTarget == Val(fn_args).target

ComparedCols ==
    SelectSeq(TargetCols(MatchTarget),
              LAMBDA c : \E j \in 1 .. Len(RawCols(Env, Val(fn_args).col_filter)) :
                            RawCols(Env, Val(fn_args).col_filter)[j] = c)

Scores == Val(ret.val).scores

BestMatch == Val(ret.val).min_index

\* The mean of column c over the rows of the k-th scored group.
MeanOf(k, c) == ColumnMean(data.raw.data[c], DictGet(Val(index_dict), Scores[k].key))

\* The target equals the k-th group's mean on every compared column.
EqualsMeans(k) ==
    \A i \in 1 .. Len(ComparedCols) :
        /\ MeanOf(k, ComparedCols[i]).n > 0
        /\ MatchTarget.cells[ComparedCols[i]].val * MeanOf(k, ComparedCols[i]).n
              = MeanOf(k, ComparedCols[i]).sum

\* None of these means is 0.
NonZeroMeans(k) ==
    \A i \in 1 .. Len(ComparedCols) : MeanOf(k, ComparedCols[i]).sum # 0

\* C14 (as stated): a cluster whose means equal the target on every compared
\* column gets the score 0 and is returned as the best match.
C14_ExactMatchWins ==
    MatchCall =>
        \A k \in 1 .. Len(Scores) :
            EqualsMeans(k) => Scores[k].val = Fin(0) /\ BestMatch = Scores[k].key

\* C14 (amended): a cluster whose means are non-zero and equal the target on
\* every compared column gets the score 0, and the first such cluster in the
\* order of the grouping is returned as the best match.
C14_ExactMatchScoresZero ==
    MatchCall =>
        \A k \in 1 .. Len(Scores) :
            (EqualsMeans(k) /\ NonZeroMeans(k)) =>
                /\ Scores[k].val = Fin(0)
                /\ \E j \in 1 .. k :
                      /\ BestMatch = Scores[j].key
                      /\ EqualsMeans(j) /\ NonZeroMeans(j)
                      /\ \A i \in 1 .. (j - 1) : ~(EqualsMeans(i) /\ NonZeroMeans(i))

\* Two columns were compared and the second of three scored clusters is the
\* only exact match, and is returned.
C14_Witness ==
    /\ MatchCall
    /\ Len(ComparedCols) = 2
    /\ Len(Scores) = 3
    /\ EqualsMeans(2) /\ NonZeroMeans(2)
    /\ ~EqualsMeans(1) /\ ~EqualsMeans(3)
    /\ BestMatch = Scores[2].key

\* The k-th scored group has rows, and its mean of some compared column is 0.
HasZeroMean(k) ==
    \E i \in 1 .. Len(ComparedCols) :
        /\ MeanOf(k, ComparedCols[i]).n > 0
        /\ MeanOf(k, ComparedCols[i]).sum = 0

\* C15 (as stated): a cluster with a mean of 0 on a compared column gets an
\* infinite score whatever the target value is, and is never returned while
\* another cluster has a finite score.
C15_ZeroMeanDisqualifies ==
    MatchCall =>
        \A k \in 1 .. Len(Scores) :
            HasZeroMean(k) =>
                /\ Scores[k].val = Inf
                /\ (\E j \in 1 .. Len(Scores) : Scores[j].val.kind = "fin")
                      => BestMatch # Scores[k].key

\* The scored groups whose score is a number.
NumberScored == {k \in 1 .. Len(Scores) : Scores[k].val.kind # "nan"}

\* C16 (as stated): the cluster returned has the minimum score of the clusters
\* scored, and is the first of those with the minimum in the insertion order of
\* the grouping.
C16_FirstMinimum ==
    (MatchCall /\ NumberScored # {}) =>
        \E k \in NumberScored :
            /\ BestMatch = Scores[k].key
            /\ \A j \in NumberScored : ~FloatLess(Scores[j].val, Scores[k].val)
            /\ \A j \in NumberScored : j < k => FloatLess(Scores[k].val, Scores[j].val)

\* The labels of a list of columns.
Labels(cols) == {cols[i] : i \in 1 .. Len(cols)}

\* The numeric, non-missing columns of the target that are numeric columns of
\* raw and, when a filter is given, are named by it.
ColumnsToCompare ==
    {c \in Labels(TargetCols(MatchTarget)) \cap Labels(RawNumeric(data.raw)) :
        IsNone(Val(fn_args).col_filter) \/ c \in Labels(Val(Val(fn_args).col_filter))}

\* C17 (as stated): with or without a filter, target_matching compares exactly
\* the numeric non-missing target columns that are raw numeric columns and pass
\* the filter; so no comparison reads a column that is not numeric in raw, and
\* a call with a group to score completes.
C17_ComparesRawNumericOnly ==
    (ret.op = "target_matching" /\ ~IsNone(fn_args)) =>
        /\ Labels(ComparedCols) = ColumnsToCompare
        /\ Len(Val(index_dict)) > 0 => ret.ok

\* C18: after target_matching, group -1 is missing from the groups to score
\* exactly when remove_unclustered was set and some item is unclustered, and a
\* call that returns has scored every group that was kept, group -1 included.
C18_UnclusteredDropped ==
    (ret.op = "target_matching" /\ ~IsNone(fn_args)) =>
        /\ ~DictHas(Val(index_dict), GroupKey(-1))
              <=> (Val(fn_args).remove_unclustered /\ UnclusteredOnDisk # {})
        /\ ret.ok => DictKeys(Scores) = DictKeys(Val(index_dict))

\* Both cases: a call that dropped a non-empty group -1 and scored a cluster ...
C18_Witness ==
    /\ MatchCall
    /\ Val(fn_args).remove_unclustered
    /\ UnclusteredOnDisk # {}
    /\ Len(Scores) = 1
    /\ ~DictHas(Scores, GroupKey(-1))

\* ... and a call with the flag set that kept and scored an empty group -1.
C18_WitnessKept ==
    /\ MatchCall
    /\ Val(fn_args).remove_unclustered
    /\ UnclusteredOnDisk = {}
    /\ DictHas(Scores, GroupKey(-1))

\* A completed call of group_identifiers, the cluster ids that label an item,
\* and the items of one id.
IdentifyCall == ret.op = "group_identifiers" /\ ret.ok /\ ~IsNone(fn_args)

ObservedIds == {Val(cluster_ids)[i] : i \in Items}

ItemsLabelled(c) == {i \in Items : Val(cluster_ids)[i] = c}

\* Column X passes both tests on the items of cluster c.
Identifying(c, X) ==
    /\ AtLeast(ColumnMean(data.zscore.data[X], ItemsLabelled(c)), Val(fn_args).zscore_threshold)
    /\ Stable(data.zscore.data[X], ItemsLabelled(c), Val(fn_args).std_threshold)

\* C19 (as stated): the result of group_identifiers has a key for every id from
\* -1 to the largest observed cluster id, and lists column X under id c exactly
\* when c labels an item, the mean z-score of X over the items of c is at least
\* zscore_threshold in absolute value and |std / mean| of X over these items is
\* at most std_threshold, whichever ids are observed.
C19_IdentifyingColumns ==
    IdentifyCall =>
        /\ DictKeys(Val(ret.val)) = [i \in 1 .. (Largest(ObservedIds) + 2) |-> i - 2]
        /\ \A c \in -1 .. Largest(ObservedIds) : \A X \in Labels(data.zscore.columns) :
              X \in Labels(DictGet(Val(ret.val), c))
                 <=> (c \in ObservedIds /\ Identifying(c, X))

\* The column the filter was called on: its number of cells n, its deviation
\* n * (mean - global mean) and its spread n^2 * std^2.
FilterCall == ret.op = "std_zscore_threshold_filter"

FilterN == Len(Val(fn_args).col)

FilterDeviation == ColumnSum(Val(fn_args).col) - FilterN * Val(fn_args).global_mean

FilterSpread == Variance(Val(fn_args).col)

\* |z-score| > zscore_threshold and std < std_threshold, on a column with cells:
\* with std = 0 the z-score is +infinity, else it is deviation / (n * std).
Significant ==
    /\ FilterSpread < Val(fn_args).std_threshold * Val(fn_args).std_threshold * FilterN * FilterN
    /\ \/ FilterSpread = 0
       \/ FilterDeviation * FilterDeviation
             > Val(fn_args).zscore_threshold * Val(fn_args).zscore_threshold * FilterSpread

\* C20: std_zscore_threshold_filter returns 0 exactly when |z-score| >
\* zscore_threshold and std < std_threshold, both strict, and 1 otherwise; a
\* column of standard deviation 0 has the z-score +infinity and the call
\* returns for it as for every other column.
C20_StrictThresholds ==
    FilterCall =>
        /\ ret.ok
        /\ Val(ret.val) \in {0, 1}
        /\ FilterN > 0 => (Val(ret.val) = 0 <=> Significant)
        /\ (FilterN > 0 /\ FilterSpread = 0)
              => (Val(ret.val) = 0 <=> Val(fn_args).std_threshold > 0)

\* The z-score of a column of non-zero standard deviation equals its threshold
\* while the standard deviation is below its own: the column is not significant.
C20_Witness ==
    /\ FilterCall
    /\ FilterSpread > 0
    /\ FilterDeviation * FilterDeviation
          = Val(fn_args).zscore_threshold * Val(fn_args).zscore_threshold * FilterSpread
    /\ FilterSpread < Val(fn_args).std_threshold * Val(fn_args).std_threshold * FilterN * FilterN
    /\ Val(ret.val) = 1

\* A column of standard deviation 0 is significant under a positive threshold.
C20_WitnessZeroStd ==
    /\ FilterCall
    /\ FilterN > 1
    /\ FilterSpread = 0
    /\ Val(ret.val) = 0

\* The filter was called on a column with cells, all equal, under a positive
\* std_threshold.
ZeroStdCall ==
    /\ FilterCall
    /\ FilterN > 0
    /\ FilterSpread = 0
    /\ Val(fn_args).std_threshold > 0

\* C21 (as stated): a column of standard deviation 0 is ranked non-significant,
\* the filter returns 1 for it under every positive std_threshold and every
\* zscore_threshold.
C21_ZeroStdNotSignificant == ZeroStdCall => Val(ret.val) = 1

\* C21 (amended): a column of standard deviation 0 is ranked significant, the
\* filter returns 0 for it under every positive std_threshold and every
\* zscore_threshold, because its z-score is +infinity.
C21_ZeroStdSignificant == ZeroStdCall => Val(ret.val) = 0

\* Three equal cells whose mean is the global mean, under the largest
\* zscore_threshold: the column is returned as significant.
C21_Witness ==
    /\ ZeroStdCall
    /\ FilterN = NumItems
    /\ FilterDeviation = 0
    /\ Val(fn_args).zscore_threshold = 2
    /\ Val(ret.val) = 0

\* The pickle an accessor reads cannot give the accessor its value.
CannotLoad(op) ==
    \/ op = "raw" /\ tupper_files.raw # "ok"
    \/ op = "clean" /\ clean_file \in {"unreadable", "missing", "lacks clean_data"}
    \/ op = "get_dropped_columns"
          /\ clean_file \in {"unreadable", "missing", "lacks dropped_columns"}
    \/ op = "projection"
          /\ tupper_files.projection \in {"unreadable", "missing", "lacks projection"}
    \/ op = "get_projection_parameters"
          /\ tupper_files.projection \in {"unreadable", "missing", "lacks hyperparameters"}

\* C22 (as stated): an accessor of the data container whose path is missing
\* or unreadable at the time of the access, or whose artifact lacks the
\* expected key, ends in an error and returns nothing to its caller.
C22_AccessorsFail == CannotLoad(ret.op) => ~ret.ok

\* The size of a node of the complex and the label its description holds.
NodeSize(n) == Cardinality(DictGet(DiskNodes, n))

LabelOfNode(n) == DictGet(Val(node_description), n).label

\* N_total of a component: the sum of the sizes of its nodes.
NodeSizeSum(component) == SumOver([n \in component |-> NodeSize(n)], component)

\* S_label: the sum of the sizes of the nodes of the component with that label.
LabelSizeSum(component, label) ==
    NodeSizeSum({n \in component : LabelOfNode(n) = label})

\* The description written for the k-th component.
ClusterEntry(k) == DictGet(Val(cluster_descriptions), disk.components[k].val)

\* C23: in every description written for a cluster with id >= 0 the density
\* has one entry per label selected by a node of the component, of value
\* round(S_label / N_total, 2), where both sums count an item once per node
\* holding it, and the size is the number of distinct items of the component.
C23_DensityOfLabels ==
    ~IsNone(cluster_descriptions) =>
        \A k \in 1 .. Len(disk.components) :
            DictHas(Val(cluster_descriptions), disk.components[k].val) =>
                /\ DictKeySet(ClusterEntry(k).density)
                      = {LabelOfNode(n) : n \in disk.components[k].key}
                /\ \A i \in 1 .. Len(ClusterEntry(k).density) :
                      ClusterEntry(k).density[i].val
                         = Round2(LabelSizeSum(disk.components[k].key,
                                               ClusterEntry(k).density[i].key),
                                  NodeSizeSum(disk.components[k].key))
                /\ ClusterEntry(k).size = Cardinality(ItemsOfComponent(k))

\* A completed call on a component of two nodes that share an item and select
\* different labels: N_total exceeds the size of the cluster.
C23_Witness ==
    /\ ret.op = "compute_cluster_descriptions"
    /\ ret.ok
    /\ Len(disk.components) = 1
    /\ Cardinality(disk.components[1].key) = 2
    /\ Len(ClusterEntry(1).density) = 2
    /\ NodeSizeSum(disk.components[1].key) > ClusterEntry(1).size

\* C24 (as stated): a derivation that raises leaves every cache field it
\* writes as it was before the call.
C24_FailureAtomic ==
    [][/\ (ret'.op = "label_item_by_node" /\ ~ret'.ok)
              => UNCHANGED <<node_ids, unclustered_items>>
       /\ (ret'.op = "label_item_by_cluster" /\ ~ret'.ok)
              => UNCHANGED <<cluster_ids, cluster_sizes, items_dict, unclustered_items>>
       /\ (ret'.op = "compute_node_descriptions" /\ ~ret'.ok)
              => UNCHANGED node_description
       /\ (ret'.op = "compute_cluster_descriptions" /\ ~ret'.ok)
              => UNCHANGED cluster_descriptions]_vars

\* Item i is listed under the cluster id that labels it, and is labelled -1
\* exactly when the list of cluster -1 holds it.
ListedUnderLabel(i) ==
    /\ DictHas(Val(items_dict), Val(cluster_ids)[i])
    /\ i \in DictGet(Val(items_dict), Val(cluster_ids)[i])
    /\ Val(cluster_ids)[i] = -1 <=> i \in DictGet(Val(items_dict), -1)

\* C25 (as stated): after label_item_by_cluster completes, every item is
\* listed in items_dict under its label cluster_ids[i], and its label is -1
\* exactly when it is in the unclustered list items_dict[-1].
C25_LabelsAgreeWithLists ==
    Completed("label_item_by_cluster") => \A i \in Items : ListedUnderLabel(i)

\* C25 (amended): the same, provided the memoized unclustered list is the one
\* of the complex now loaded.
C25_LabelsAgreeWhenFresh ==
    (Completed("label_item_by_cluster") /\ Val(unclustered_items) = UnclusteredOnDisk)
        => \A i \in Items : ListedUnderLabel(i)

\* The complex was rewritten before the call, an item is shared by two
\* components and another one is unclustered.
C25_Witness ==
    /\ Completed("label_item_by_cluster")
    /\ changes > 0
    /\ Val(unclustered_items) = UnclusteredOnDisk
    /\ UnclusteredOnDisk # {}
    /\ \E i \in Items : Cardinality(ComponentsHolding(i)) = 2

\* Two dicts are equal when they hold the same keys with the same values, in
\* whatever order the keys were inserted.
DictEqual(a, b) ==
    /\ DictKeySet(a) = DictKeySet(b)
    /\ \A k \in DictKeySet(a) : DictGet(a, k) = DictGet(b, k)

\* label_item_by_cluster run again on this instance, with the components of
\* the artifact processed in the order c.
Relabelled(c) == label_item_by_cluster(Self, [Env EXCEPT !.disk.components = c])

\* C26: the result of label_item_by_cluster depends on the order in which the
\* components are processed only through the items shared between components:
\* whatever the order, cluster_sizes and items_dict are the same dicts, and
\* cluster_ids gives the same label to every item that lies in the node sets
\* of at most one component.
C26_OrderOnlyThroughSharedItems ==
    Completed("label_item_by_cluster") =>
        \A c \in Orders(disk.components) :
            /\ Relabelled(c).ok
            /\ DictEqual(Val(Relabelled(c).self.cluster_sizes), Val(cluster_sizes))
            /\ DictEqual(Val(Relabelled(c).self.items_dict), Val(items_dict))
            /\ \A i \in Items :
                  Cardinality(ComponentsHolding(i)) <= 1
                      => Val(Relabelled(c).self.cluster_ids)[i] = Val(cluster_ids)[i]

\* Three components were processed in a key order other than A, B, C; one item
\* lies in two of them and gets another label under another order, and one
\* item lies in one component only.
C26_Witness ==
    /\ Completed("label_item_by_cluster")
    /\ Len(disk.components) = 3
    /\ DictKeys(disk.components) # <<{"A"}, {"B"}, {"C"}>>
    /\ \E i \in Items : Cardinality(ComponentsHolding(i)) = 1
    /\ \E i \in Items, c \in Orders(disk.components) :
          /\ Cardinality(ComponentsHolding(i)) = 2
          /\ Val(Relabelled(c).self.cluster_ids)[i] # Val(cluster_ids)[i]
    /\ DictKeys(Val(items_dict)) # <<0, 1, 2, -1>>

====
